---- MODULE Spec2Model ----
(***************************************************************************)
(* dissembler: a process-lifecycle supervisor.  Serve runs Init, launches  *)
(* Start on its own goroutine, then blocks in Wait, which reads Unix       *)
(* signals off a buffered channel and calls Stop on INT, QUIT or TERM.     *)
(*                                                                         *)
(* Two threads of control are modelled: the caller of Serve (pc) and the   *)
(* goroutine of Serve's go statement (gpc).  The environment delivers      *)
(* signals (Deliver).  The Lifecycle is the application's: each of its     *)
(* operations may succeed or fail, and Start and Stop may never return.    *)
(***************************************************************************)
EXTENDS Naturals, Sequences, FiniteSets

VARIABLES
    pc,           \* position of the goroutine that called Serve
    gpc,          \* position of the goroutine launched by Serve's go statement
    err,          \* Serve's local variable err (captured by the go closure)
    subscribed,   \* signal.Notify(ch, ...) has been called
    ch,           \* contents of the channel ch of Wait
    sig,          \* Wait's local variable sig
    startOutcome, \* how the Lifecycle's Start behaves once invoked
    stopOutcome,  \* how the Lifecycle's Stop behaves once invoked
    waitRet,      \* the pair returned by Wait
    serveRet,     \* the error returned by Serve
    logs,         \* entries written to DissemblerLogger
    alive,        \* the process has not been ended by an unhandled signal
    calls,        \* history: Lifecycle operations in the order they were invoked
    initRet,      \* history: what Init returned
    enq,          \* history: signals the signal package put on ch
    deq,          \* history: signals received from ch
    backlog,      \* history: what was left on ch at the latest receive
    dropped,      \* history: signals not put on ch because it was full
    early         \* history: signals delivered before signal.Notify

vars == <<pc, gpc, err, subscribed, ch, sig, startOutcome, stopOutcome,
          waitRet, serveRet, logs, alive, calls, initRet, enq, deq,
          backlog, dropped, early>>

(***************************************************************************)
(* Bounds of the model.                                                    *)
(***************************************************************************)
\* Number of signals the environment delivers in one run.
MaxSignals == 4

(***************************************************************************)
(* Values.                                                                 *)
(***************************************************************************)
\* The signals Wait passes to signal.Notify.
Notified == {"HUP", "INT", "QUIT", "TERM", "USR1", "USR2"}

\* Capacity of the channel made by Wait.
ChanCap == 2

\* Errors a Lifecycle can return.  Two distinct Init errors make "the Init
\* error unchanged" a statement about a value.
InitErrors == {"eInit1", "eInit2"}
StartError == "eStart"
StopError  == "eStop"

NoSig == "none"
NoRet == [sig |-> NoSig, err |-> "none"]

\* Signals whose default disposition in a Go program, while no channel is
\* notified of them, is to end the process.
FatalByDefault == {"HUP", "INT", "QUIT", "TERM"}

(***************************************************************************)
(* Pure parts of the code.                                                 *)
(***************************************************************************)
\* Faulty variants of the switch, used to test the properties: the case for
\* SIGHUP that the source has commented out, a case for SIGUSR2 like the one
\* it has commented out, and a SIGINT case that returns the wrong constant.
CaseReturnHup(s) ==
    CASE s = "HUP"  -> "HUP"
      [] s = "INT"  -> "INT"
      [] s = "QUIT" -> "QUIT"
      [] s = "TERM" -> "TERM"
      [] OTHER      -> NoSig

CaseReturnUsr2(s) ==
    CASE s = "INT"  -> "INT"
      [] s = "QUIT" -> "QUIT"
      [] s = "TERM" -> "TERM"
      [] s = "USR2" -> "USR2"
      [] OTHER      -> NoSig

CaseReturnIntAsTerm(s) ==
    CASE s = "INT"  -> "TERM"
      [] s = "QUIT" -> "QUIT"
      [] s = "TERM" -> "TERM"
      [] OTHER      -> NoSig

\* The switch of Wait: the signal constant returned by the case that matches
\* s, NoSig when no case matches and the loop continues.
CaseReturn(s) ==
    CASE s = "INT"  -> "INT"
      [] s = "QUIT" -> "QUIT"
      [] s = "TERM" -> "TERM"
      [] OTHER      -> NoSig

\* Faulty variant: Wait returns the error of Stop.
WaitResultStopErr(s, stopErr) == [sig |-> s, err |-> stopErr]

\* The return statements of Wait: Stop's result is discarded.
WaitResult(s, stopErr) == [sig |-> s, err |-> "nil"]

\* Faulty variant: Serve returns its variable err, which the go closure
\* assigns.
ServeResultOuterErr(outerErr, waitErr) == outerErr

\* Serve's final return statement.
ServeResult(outerErr, waitErr) == "nil"

\* Faulty variant: the channel made with room for one signal.
NotifySendCapOne(q, s) == IF Len(q) < 1 THEN Append(q, s) ELSE q

\* The non-blocking send of the signal package on a notified channel.
NotifySend(q, s) == IF Len(q) < ChanCap THEN Append(q, s) ELSE q

\* The entries Serve and Wait write to the logger.
SignalCaught(s) == [level |-> "info", msg |-> "signal caught", field |-> s]
WaitFailed(e) ==
    [level |-> "error",
     msg |-> "Unable to finish waiting for Dissembler to shutdown",
     field |-> e]

Sent == Len(enq) + dropped + early

\* Faulty variant: the channel is registered before Serve runs Init.
InitSubscribed ==
    /\ pc = "serve"
    /\ gpc = "none"
    /\ err = "nil"
    /\ subscribed = TRUE
    /\ ch = <<>>
    /\ sig = NoSig
    /\ startOutcome = "none"
    /\ stopOutcome = "none"
    /\ waitRet = NoRet
    /\ serveRet = "none"
    /\ logs = <<>>
    /\ alive = TRUE
    /\ calls = <<>>
    /\ initRet = "none"
    /\ enq = <<>>
    /\ deq = <<>>
    /\ backlog = <<>>
    /\ dropped = 0
    /\ early = 0

(***************************************************************************)
(* Initial state: Serve has been called, nothing has run.                  *)
(***************************************************************************)
Init ==
    /\ pc = "serve"
    /\ gpc = "none"
    /\ err = "nil"
    /\ subscribed = FALSE
    /\ ch = <<>>
    /\ sig = NoSig
    /\ startOutcome = "none"
    /\ stopOutcome = "none"
    /\ waitRet = NoRet
    /\ serveRet = "none"
    /\ logs = <<>>
    /\ alive = TRUE
    /\ calls = <<>>
    /\ initRet = "none"
    /\ enq = <<>>
    /\ deq = <<>>
    /\ backlog = <<>>
    /\ dropped = 0
    /\ early = 0

(***************************************************************************)
(* Serve, on the calling goroutine.                                        *)
(***************************************************************************)
\* Serve invokes d.lifecycle.Init().
InitCall ==
    /\ alive
    /\ pc = "serve"
    /\ pc' = "in_init"
    /\ calls' = Append(calls, "Init")
    /\ UNCHANGED <<gpc, err, subscribed, ch, sig, startOutcome, stopOutcome,
                   waitRet, serveRet, logs, alive, initRet, enq, deq,
                   backlog, dropped, early>>

\* Init returns and its result is assigned to err.
InitReturn ==
    /\ alive
    /\ pc = "in_init"
    /\ \E e \in {"nil"} \cup InitErrors :
          /\ err' = e
          /\ initRet' = e
    /\ pc' = "init_check"
    /\ UNCHANGED <<gpc, subscribed, ch, sig, startOutcome, stopOutcome,
                   waitRet, serveRet, logs, alive, calls, enq, deq,
                   backlog, dropped, early>>

\* Faulty variant: the Init error is swallowed, Serve returns nil.
InitCheckSwallow ==
    /\ alive
    /\ pc = "init_check"
    /\ IF err # "nil"
         THEN /\ pc' = "done"
              /\ serveRet' = "nil"
         ELSE /\ pc' = "spawn"
              /\ serveRet' = serveRet
    /\ UNCHANGED <<gpc, err, subscribed, ch, sig, startOutcome, stopOutcome,
                   waitRet, logs, alive, calls, initRet, enq, deq,
                   backlog, dropped, early>>

\* Faulty variant: the Init error is not checked, Serve goes on.
InitCheckIgnore ==
    /\ alive
    /\ pc = "init_check"
    /\ pc' = "spawn"
    /\ UNCHANGED <<gpc, err, subscribed, ch, sig, startOutcome, stopOutcome,
                   waitRet, serveRet, logs, alive, calls, initRet, enq, deq,
                   backlog, dropped, early>>

\* if err != nil { return err }
InitCheck ==
    /\ alive
    /\ pc = "init_check"
    /\ IF err # "nil"
         THEN /\ pc' = "done"
              /\ serveRet' = err
         ELSE /\ pc' = "spawn"
              /\ serveRet' = serveRet
    /\ UNCHANGED <<gpc, err, subscribed, ch, sig, startOutcome, stopOutcome,
                   waitRet, logs, alive, calls, initRet, enq, deq,
                   backlog, dropped, early>>

\* The go statement: the closure is scheduled, Serve goes on at once.
GoStart ==
    /\ alive
    /\ pc = "spawn"
    /\ pc' = "wait_enter"
    /\ gpc' = "launched"
    /\ UNCHANGED <<err, subscribed, ch, sig, startOutcome, stopOutcome,
                   waitRet, serveRet, logs, alive, calls, initRet, enq, deq,
                   backlog, dropped, early>>

(***************************************************************************)
(* The closure of the go statement, on its own goroutine.                  *)
(***************************************************************************)
\* The closure begins and invokes d.lifecycle.Start().
StartCall ==
    /\ alive
    /\ gpc = "launched"
    /\ gpc' = "in_start"
    /\ calls' = Append(calls, "Start")
    /\ startOutcome' \in {"ok", "err", "hang"}
    /\ UNCHANGED <<pc, err, subscribed, ch, sig, stopOutcome,
                   waitRet, serveRet, logs, alive, initRet, enq, deq,
                   backlog, dropped, early>>

\* Faulty variant: a Start that fails feeds the wait loop a SIGTERM.
StartReturnShutsDown ==
    /\ alive
    /\ gpc = "in_start"
    /\ startOutcome \in {"ok", "err"}
    /\ err' = IF startOutcome = "err" THEN StartError ELSE "nil"
    /\ gpc' = "returned"
    /\ ch' = IF startOutcome = "err" /\ subscribed
               THEN NotifySend(ch, "TERM")
               ELSE ch
    /\ enq' = IF ch' # ch THEN Append(enq, "TERM") ELSE enq
    /\ UNCHANGED <<pc, subscribed, sig, startOutcome, stopOutcome,
                   waitRet, serveRet, logs, alive, calls, initRet, deq,
                   backlog, dropped, early>>

\* Start returns; the closure assigns its result to Serve's err and ends. What
\* the closure returns is discarded by the go statement.
StartReturn ==
    /\ alive
    /\ gpc = "in_start"
    /\ startOutcome \in {"ok", "err"}
    /\ err' = IF startOutcome = "err" THEN StartError ELSE "nil"
    /\ gpc' = "returned"
    /\ UNCHANGED <<pc, subscribed, ch, sig, startOutcome, stopOutcome,
                   waitRet, serveRet, logs, alive, calls, initRet, enq, deq,
                   backlog, dropped, early>>

(***************************************************************************)
(* Wait, on the calling goroutine.                                         *)
(***************************************************************************)
\* Faulty variant: a barrier; Wait is entered once Start has begun executing.
SubscribeAfterStartBegan ==
    /\ alive
    /\ pc = "wait_enter"
    /\ gpc # "launched"
    /\ ch' = <<>>
    /\ subscribed' = TRUE
    /\ pc' = "recv"
    /\ UNCHANGED <<gpc, err, sig, startOutcome, stopOutcome,
                   waitRet, serveRet, logs, alive, calls, initRet, enq, deq,
                   backlog, dropped, early>>

\* ch := make(chan os.Signal, 2); signal.Notify(ch, ...)
Subscribe ==
    /\ alive
    /\ pc = "wait_enter"
    /\ ch' = <<>>
    /\ subscribed' = TRUE
    /\ pc' = "recv"
    /\ UNCHANGED <<gpc, err, sig, startOutcome, stopOutcome,
                   waitRet, serveRet, logs, alive, calls, initRet, enq, deq,
                   backlog, dropped, early>>

\* Faulty variant: the newest queued signal is taken, not the oldest.
RecvNewest ==
    /\ alive
    /\ pc = "recv"
    /\ ch # <<>>
    /\ sig' = ch[Len(ch)]
    /\ ch' = SubSeq(ch, 1, Len(ch) - 1)
    /\ deq' = Append(deq, ch[Len(ch)])
    /\ backlog' = SubSeq(ch, 1, Len(ch) - 1)
    /\ pc' = "log"
    /\ UNCHANGED <<gpc, err, subscribed, startOutcome, stopOutcome,
                   waitRet, serveRet, logs, alive, calls, initRet, enq,
                   dropped, early>>

\* Faulty variant: the loop joins the Start goroutine before it receives.
RecvAfterStart ==
    /\ alive
    /\ pc = "recv"
    /\ gpc = "returned"
    /\ ch # <<>>
    /\ sig' = Head(ch)
    /\ ch' = Tail(ch)
    /\ deq' = Append(deq, Head(ch))
    /\ backlog' = Tail(ch)
    /\ pc' = "log"
    /\ UNCHANGED <<gpc, err, subscribed, startOutcome, stopOutcome,
                   waitRet, serveRet, logs, alive, calls, initRet, enq,
                   dropped, early>>

\* Faulty variant: the receive times out on an empty channel and Wait returns
\* an error.
RecvOrTimeout ==
    /\ alive
    /\ pc = "recv"
    /\ IF ch # <<>>
         THEN /\ sig' = Head(ch)
              /\ ch' = Tail(ch)
              /\ deq' = Append(deq, Head(ch))
              /\ backlog' = Tail(ch)
              /\ pc' = "log"
              /\ waitRet' = waitRet
         ELSE /\ waitRet' = [sig |-> NoSig, err |-> "timeout"]
              /\ pc' = "wait_ret"
              /\ UNCHANGED <<sig, ch, deq, backlog>>
    /\ UNCHANGED <<gpc, err, subscribed, startOutcome, stopOutcome,
                   serveRet, logs, alive, calls, initRet, enq,
                   dropped, early>>

\* sig := <-ch  (blocks while ch is empty)
Recv ==
    /\ alive
    /\ pc = "recv"
    /\ ch # <<>>
    /\ sig' = Head(ch)
    /\ ch' = Tail(ch)
    /\ deq' = Append(deq, Head(ch))
    /\ backlog' = Tail(ch)
    /\ pc' = "log"
    /\ UNCHANGED <<gpc, err, subscribed, startOutcome, stopOutcome,
                   waitRet, serveRet, logs, alive, calls, initRet, enq,
                   dropped, early>>

\* Faulty variant: the entry is written inside the cases, so only for the
\* signals that stop the supervisor.
LogSignalInCases ==
    /\ alive
    /\ pc = "log"
    /\ logs' = IF CaseReturn(sig) # NoSig
                 THEN Append(logs, SignalCaught(sig))
                 ELSE logs
    /\ pc' = "switch"
    /\ UNCHANGED <<gpc, err, subscribed, ch, sig, startOutcome, stopOutcome,
                   waitRet, serveRet, alive, calls, initRet, enq, deq,
                   backlog, dropped, early>>

\* DissemblerLogger.Info("signal caught", log.String("signal", sig.String()))
LogSignal ==
    /\ alive
    /\ pc = "log"
    /\ logs' = Append(logs, SignalCaught(sig))
    /\ pc' = "switch"
    /\ UNCHANGED <<gpc, err, subscribed, ch, sig, startOutcome, stopOutcome,
                   waitRet, serveRet, alive, calls, initRet, enq, deq,
                   backlog, dropped, early>>

\* switch sig: a matching case invokes d.lifecycle.Stop(); with no matching
\* case the for loop goes round to the receive.
Dispatch ==
    /\ alive
    /\ pc = "switch"
    /\ IF CaseReturn(sig) # NoSig
         THEN /\ pc' = "in_stop"
              /\ calls' = Append(calls, "Stop")
              /\ stopOutcome' \in {"ok", "err", "hang"}
         ELSE /\ pc' = "recv"
              /\ UNCHANGED <<calls, stopOutcome>>
    /\ UNCHANGED <<gpc, err, subscribed, ch, sig, startOutcome,
                   waitRet, serveRet, logs, alive, initRet, enq, deq,
                   backlog, dropped, early>>

\* Faulty variant: the case does not return after Stop, the loop goes on.
StopReturnNoExit ==
    /\ alive
    /\ pc = "in_stop"
    /\ stopOutcome \in {"ok", "err"}
    /\ pc' = "recv"
    /\ UNCHANGED <<gpc, err, subscribed, ch, sig, startOutcome, stopOutcome,
                   waitRet, serveRet, logs, alive, calls, initRet, enq, deq,
                   backlog, dropped, early>>

\* Faulty variant: the case gives up on a Stop that does not return.
StopReturnTimeout ==
    /\ alive
    /\ pc = "in_stop"
    /\ waitRet' = WaitResult(CaseReturn(sig),
                             IF stopOutcome = "err" THEN StopError ELSE "nil")
    /\ pc' = "wait_ret"
    /\ UNCHANGED <<gpc, err, subscribed, ch, sig, startOutcome, stopOutcome,
                   serveRet, logs, alive, calls, initRet, enq, deq,
                   backlog, dropped, early>>

\* Stop returns and the case returns its signal constant with a nil error.
StopReturn ==
    /\ alive
    /\ pc = "in_stop"
    /\ stopOutcome \in {"ok", "err"}
    /\ waitRet' = WaitResult(CaseReturn(sig),
                             IF stopOutcome = "err" THEN StopError ELSE "nil")
    /\ pc' = "wait_ret"
    /\ UNCHANGED <<gpc, err, subscribed, ch, sig, startOutcome, stopOutcome,
                   serveRet, logs, alive, calls, initRet, enq, deq,
                   backlog, dropped, early>>

(***************************************************************************)
(* Back in Serve.                                                          *)
(***************************************************************************)
\* if _, err := d.Wait(); nil != err { DissemblerLogger.Error(...) }
\* return nil
ServeReturn ==
    /\ alive
    /\ pc = "wait_ret"
    /\ logs' = IF waitRet.err # "nil"
                 THEN Append(logs, WaitFailed(waitRet.err))
                 ELSE logs
    /\ serveRet' = ServeResult(err, waitRet.err)
    /\ pc' = "done"
    /\ UNCHANGED <<gpc, err, subscribed, ch, sig, startOutcome, stopOutcome,
                   waitRet, alive, calls, initRet, enq, deq,
                   backlog, dropped, early>>

(***************************************************************************)
(* The environment: a signal reaches the process.                          *)
(***************************************************************************)
\* Before signal.Notify no channel is registered: the signal is not queued
\* anywhere, and the Go runtime's default disposition applies (HUP, INT, QUIT
\* and TERM end the process, USR1 and USR2 have no effect).  After it, the
\* signal package sends on ch without blocking, dropping the signal when ch
\* is full.  The channel stays registered after Wait has returned.
Deliver ==
    /\ alive
    /\ Sent < MaxSignals
    /\ \E s \in Notified :
          IF subscribed
            THEN /\ ch' = NotifySend(ch, s)
                 /\ enq' = IF ch' # ch THEN Append(enq, s) ELSE enq
                 /\ dropped' = IF ch' # ch THEN dropped ELSE dropped + 1
                 /\ UNCHANGED <<alive, early>>
            ELSE /\ early' = early + 1
                 /\ alive' = (s \notin FatalByDefault)
                 /\ UNCHANGED <<ch, enq, dropped>>
    /\ UNCHANGED <<pc, gpc, err, subscribed, sig, startOutcome, stopOutcome,
                   waitRet, serveRet, logs, calls, initRet, deq, backlog>>

Next ==
    \/ InitCall
    \/ InitReturn
    \/ InitCheck
    \/ GoStart
    \/ StartCall
    \/ StartReturn
    \/ Subscribe
    \/ Recv
    \/ LogSignal
    \/ Dispatch
    \/ StopReturn
    \/ ServeReturn
    \/ Deliver

Spec == Init /\ [][Next]_vars

\* A step of the goroutine that called Serve.  Its steps are enabled one at a
\* time, by pc.
ServeStep ==
    \/ InitCall
    \/ InitReturn
    \/ InitCheck
    \/ GoStart
    \/ Subscribe
    \/ Recv
    \/ LogSignal
    \/ Dispatch
    \/ StopReturn
    \/ ServeReturn

\* The Go scheduler runs every runnable goroutine: the caller of Serve takes
\* the step that is enabled (Init and Stop return when their outcome is to
\* return).  Nothing is assumed of the Start goroutine, nor of the environment.
FairSpec == Spec /\ WF_vars(ServeStep)

(***************************************************************************)
(* The informal state machine of the supervisor, read off the position of  *)
(* the calling goroutine.  A run whose Init failed never leaves CREATED.   *)
(***************************************************************************)
State ==
    CASE pc \in {"serve", "in_init", "init_check"}         -> "CREATED"
      [] pc = "spawn"                                      -> "INITIALIZED"
      [] pc \in {"wait_enter", "recv", "log", "switch"}    -> "RUNNING"
      [] pc = "in_stop"                                    -> "STOPPING"
      [] pc \in {"wait_ret", "done"} /\ waitRet # NoRet    -> "STOPPED"
      [] OTHER                                             -> "CREATED"

Rank ==
    CASE State = "CREATED"     -> 0
      [] State = "INITIALIZED" -> 1
      [] State = "RUNNING"     -> 2
      [] State = "STOPPING"    -> 3
      [] State = "STOPPED"     -> 4

(***************************************************************************)
(* Vocabulary of the properties.                                           *)
(***************************************************************************)
TerminatingSignals == {"INT", "QUIT", "TERM"}
IgnoredSignals     == {"HUP", "USR1", "USR2"}

Count(seq, x) == Cardinality({i \in DOMAIN seq : seq[i] = x})

StopCalls  == Count(calls, "Stop")
StartCalls == Count(calls, "Start")
InitCalls  == Count(calls, "Init")

\* The first terminating signal of a sequence, NoSig when it has none.
FirstTerminating(seq) ==
    IF \E i \in DOMAIN seq : seq[i] \in TerminatingSignals
      THEN seq[CHOOSE i \in DOMAIN seq :
                  /\ seq[i] \in TerminatingSignals
                  /\ \A j \in 1..(i - 1) : seq[j] \notin TerminatingSignals]
      ELSE NoSig

IsPrefix(s, t) == Len(s) <= Len(t) /\ SubSeq(t, 1, Len(s)) = s

(***************************************************************************)
(* C1.  For every signal s of INT, QUIT, TERM: once the wait loop has      *)
(* dequeued s as its first terminating signal, Stop is invoked exactly     *)
(* once, and when Stop returns (with success or with an error) Wait        *)
(* returns s with a nil error.  The loop is back at its receive only while *)
(* no terminating signal has been dequeued.                                *)
(***************************************************************************)
C1_StopOnceReturnsSignal ==
    /\ pc = "recv" => FirstTerminating(deq) = NoSig
    /\ pc \in {"in_stop", "wait_ret"} \/ (pc = "done" /\ initRet = "nil") =>
          /\ StopCalls = 1
          /\ FirstTerminating(deq) \in TerminatingSignals
          /\ FirstTerminating(deq) = deq[Len(deq)]
    /\ pc \in {"wait_ret", "done"} /\ initRet = "nil" =>
          /\ waitRet.sig = FirstTerminating(deq)
          /\ waitRet.err = "nil"
          /\ stopOutcome \in {"ok", "err"}
    /\ waitRet # NoRet => pc \in {"wait_ret", "done"}

C1_Witness ==
    /\ waitRet = [sig |-> "QUIT", err |-> "nil"]
    /\ stopOutcome = "err"
    /\ StopCalls = 1

(***************************************************************************)
(* C2.  Stop is invoked at most once in a Serve call; the state only moves *)
(* one step at a time along CREATED, INITIALIZED, RUNNING, STOPPING,       *)
(* STOPPED; STOPPED is never left; and once Stop has been invoked no       *)
(* further signal is dequeued, logged or acted upon.                       *)
(***************************************************************************)
C2_SingleStop ==
    /\ [](StopCalls <= 1)
    /\ [][Rank' = Rank \/ Rank' = Rank + 1]_vars
    /\ [][State = "STOPPED" => State' = "STOPPED"]_vars
    /\ [][StopCalls >= 1 =>
            /\ deq' = deq
            /\ sig' = sig
            /\ logs' = logs
            /\ StopCalls' = StopCalls]_vars

C2_Witness ==
    /\ pc = "done"
    /\ State = "STOPPED"
    /\ StopCalls = 1
    /\ Len(ch) = 2
    /\ ch[1] \in TerminatingSignals
    /\ Len(logs) = 1

(***************************************************************************)
(* C3.  If Init returns an error e, no Start task is launched, Start is    *)
(* not invoked, no signal subscription is made, Stop is not invoked, and   *)
(* Serve returns exactly e.                                                *)
(***************************************************************************)
C3_InitFailureAborts ==
    initRet \in InitErrors =>
        /\ gpc = "none"
        /\ StartCalls = 0
        /\ StopCalls = 0
        /\ ~subscribed
        /\ enq = <<>>
        /\ logs = <<>>
        /\ waitRet = NoRet
        /\ pc \in {"init_check", "done"}
        /\ pc = "done" => serveRet = initRet

C3_Witness ==
    /\ initRet = "eInit2"
    /\ pc = "done"
    /\ serveRet = "eInit2"

(***************************************************************************)
(* C4.  When a terminating signal is dequeued while another terminating    *)
(* signal is already queued behind it, Stop is called exactly once, Wait   *)
(* returns the one delivered first, and the second stays on the channel.   *)
(* Signals are dequeued in the order they were enqueued.                   *)
(***************************************************************************)
C4_DoubleSignal ==
    /\ IsPrefix(deq, enq)
    /\ ( /\ pc \in {"log", "switch", "in_stop", "wait_ret", "done"}
         /\ sig \in TerminatingSignals
         /\ backlog # <<>>
         /\ backlog[1] \in TerminatingSignals ) =>
            /\ sig = FirstTerminating(enq)
            /\ sig = enq[Len(deq)]
            /\ backlog[1] = enq[Len(deq) + 1]
            /\ IsPrefix(backlog, ch)
            /\ StopCalls <= 1
            /\ pc \in {"wait_ret", "done"} =>
                  /\ StopCalls = 1
                  /\ waitRet.sig = sig

C4_Witness ==
    /\ pc = "done"
    /\ enq = <<"INT", "TERM">>
    /\ backlog = <<"TERM">>
    /\ ch = <<"TERM">>
    /\ waitRet.sig = "INT"
    /\ StopCalls = 1

IgnoredStep ==
    \/ pc = "recv" /\ pc' = "log" /\ sig' \in IgnoredSignals
    \/ pc \in {"log", "switch"} /\ pc' # pc /\ sig \in IgnoredSignals

ThreeHups == <<"HUP", "HUP", "HUP">>

(***************************************************************************)
(* C6.  HUP three times, then TERM (and any run of non-terminating signals *)
(* followed by a terminating one): Stop is called exactly once, the call   *)
(* is made for the terminating signal, after it was logged, and never      *)
(* while only HUPs have been dequeued.                                     *)
(***************************************************************************)
C6_StopOnlyAfterTerm ==
    /\ [][StopCalls' # StopCalls =>
            /\ StopCalls = 0
            /\ StopCalls' = 1
            /\ deq # <<>>
            /\ deq[Len(deq)] \in TerminatingSignals
            /\ \A i \in 1..(Len(deq) - 1) : deq[i] \notin TerminatingSignals
            /\ Len(logs) = Len(deq)
            /\ logs[Len(logs)] = SignalCaught(deq[Len(deq)])]_vars
    /\ [](IsPrefix(deq, ThreeHups) => StopCalls = 0 /\ waitRet = NoRet)
    /\ [](deq = ThreeHups \o <<"TERM">> =>
            /\ pc \in {"log", "switch"} => StopCalls = 0
            /\ pc \notin {"log", "switch"} => StopCalls = 1
            /\ pc = "done" => waitRet.sig = "TERM")

C6_Witness ==
    /\ deq = ThreeHups \o <<"TERM">>
    /\ pc = "done"
    /\ StopCalls = 1
    /\ calls[Len(calls)] = "Stop"

\* The scenario of C7: Init succeeded, INT is the one signal dequeued, and
\* Serve has returned.
IntScenario == pc = "done" /\ initRet = "nil" /\ deq = <<"INT">>

(***************************************************************************)
(* C7, as stated.  With a Lifecycle that records each operation as it is   *)
(* called and an Init that succeeds, delivering INT yields the recorded    *)
(* order exactly [Init, Start, Stop], and Wait returns INT.                *)
(***************************************************************************)
C7_Original ==
    IntScenario =>
        /\ calls = <<"Init", "Start", "Stop">>
        /\ waitRet.sig = "INT"

(***************************************************************************)
(* C7, as amended.  In that scenario Wait returns INT with a nil error;    *)
(* Init is recorded first and Stop exactly once; Start is recorded at      *)
(* most once, before Stop, after Stop, or not at all when Serve returns.   *)
(* The order is [Init, Start, Stop] exactly when the Start goroutine had   *)
(* invoked Start before the wait loop invoked Stop.                        *)
(***************************************************************************)
C7_RecordedOrder ==
    IntScenario =>
        /\ calls \in { <<"Init", "Start", "Stop">>,
                       <<"Init", "Stop", "Start">>,
                       <<"Init", "Stop">> }
        /\ gpc = "launched" <=> calls = <<"Init", "Stop">>
        /\ waitRet.sig = "INT"
        /\ waitRet.err = "nil"

C7_Witness ==
    /\ IntScenario
    /\ calls = <<"Init", "Start", "Stop">>
    /\ waitRet.sig = "INT"

(***************************************************************************)
(* C8.  Whenever Init succeeded and Wait has returned, Serve returns nil,  *)
(* whatever Start and Stop returned; the only error Serve ever returns is  *)
(* the error of Init.                                                      *)
(***************************************************************************)
C8_ServeReturnsNil ==
    /\ pc = "done" /\ initRet = "nil" => serveRet = "nil" /\ waitRet # NoRet
    /\ pc = "done" /\ waitRet # NoRet => serveRet = "nil"
    /\ serveRet \notin {"none", "nil"} => serveRet \in InitErrors /\ serveRet = initRet
    /\ serveRet # "none" <=> pc = "done"

C8_Witness ==
    /\ pc = "done"
    /\ initRet = "nil"
    /\ serveRet = "nil"
    /\ stopOutcome = "err"
    /\ gpc = "returned"
    /\ startOutcome = "err"
    /\ err = StartError

TermQueued == \E i \in DOMAIN ch : ch[i] \in TerminatingSignals

StartUnfinished == gpc = "launched" \/ (gpc = "in_start" /\ startOutcome = "hang")

(***************************************************************************)
(* C9.  Under FairSpec: a terminating signal on the channel while the      *)
(* Start task has not begun, or is blocked in Start for ever, leads to     *)
(* Stop having been invoked and Serve having returned nil, or to Stop      *)
(* having been invoked and never returning.  The wait loop never waits     *)
(* for the Start task.                                                     *)
(***************************************************************************)
C9_ShutdownDespiteStart ==
    (TermQueued /\ StartUnfinished) ~>
        /\ StopCalls = 1
        /\ \/ pc = "done" /\ serveRet = "nil"
           \/ pc = "in_stop" /\ stopOutcome = "hang"

C9_Witness ==
    /\ gpc = "in_start"
    /\ startOutcome = "hang"
    /\ pc = "done"
    /\ serveRet = "nil"
    /\ StopCalls = 1

(***************************************************************************)
(* C10.  Init has returned, with success, before Start is invoked and      *)
(* before Stop is invoked; Init and Start are each invoked at most once.   *)
(***************************************************************************)
C10_InitBeforeStartAndStop ==
    /\ InitCalls <= 1
    /\ StartCalls <= 1
    /\ (gpc # "none" \/ StartCalls > 0 \/ StopCalls > 0) =>
          /\ initRet = "nil"
          /\ calls[1] = "Init"
          /\ pc \notin {"serve", "in_init", "init_check", "spawn"}
    /\ initRet = "none" => calls \in {<<>>, <<"Init">>}

C10_Witness ==
    /\ pc = "in_stop"
    /\ gpc = "returned"
    /\ StartCalls = 1
    /\ initRet = "nil"

(***************************************************************************)
(* C11.  When Serve has returned after a successful Init, Stop has been    *)
(* invoked and has returned.  While Stop, once invoked, does not return,   *)
(* Wait has not returned and Serve has not returned: the calling           *)
(* goroutine stays inside Stop and has no step to take.                    *)
(***************************************************************************)
C11_ReturnMeansStopped ==
    /\ (pc \in {"wait_ret", "done"} /\ initRet = "nil") =>
          /\ StopCalls = 1
          /\ stopOutcome \in {"ok", "err"}
          /\ waitRet # NoRet
    /\ stopOutcome = "none" <=> StopCalls = 0
    /\ stopOutcome = "hang" =>
          /\ pc = "in_stop"
          /\ waitRet = NoRet
          /\ serveRet = "none"
          /\ ~ENABLED ServeStep

C11_Witness ==
    /\ pc = "in_stop"
    /\ stopOutcome = "hang"
    /\ serveRet = "none"
    /\ Sent = MaxSignals
    /\ TermQueued

\* A step of the Start goroutine.
StartTaskStep == gpc # "none" /\ gpc' # gpc

(***************************************************************************)
(* C12.  A failure of Start is invisible to the supervisor.  A step of the *)
(* Start goroutine (Start invoked, Start returning with success or with    *)
(* an error) changes nothing the wait loop or Serve's result depends on:   *)
(* not the position of the calling goroutine, the channel, the log, the    *)
(* results of Wait and Serve, nor the number of Stop invocations.  With    *)
(* Start failed, succeeded, blocked or not begun alike, Stop is invoked    *)
(* only for a dequeued terminating signal, and Serve returns nil.          *)
(***************************************************************************)
C12_StartFailureInvisible ==
    /\ [][StartTaskStep =>
            /\ UNCHANGED <<pc, subscribed, ch, sig, stopOutcome, waitRet,
                           serveRet, logs, alive, enq, deq, dropped>>
            /\ StopCalls' = StopCalls]_vars
    /\ [](gpc # "none" =>
            /\ StopCalls = (IF FirstTerminating(deq) # NoSig
                                /\ pc \notin {"log", "switch"} THEN 1 ELSE 0)
            /\ waitRet # NoRet <=> pc \in {"wait_ret", "done"}
            /\ pc \in {"wait_ret", "done"} <=>
                  (stopOutcome \in {"ok", "err"} /\ pc # "in_stop")
            /\ serveRet = (IF pc = "done" THEN "nil" ELSE "none"))

C12_Witness ==
    /\ gpc = "returned"
    /\ startOutcome = "err"
    /\ err = StartError
    /\ pc = "recv"
    /\ deq = <<"HUP">>
    /\ StopCalls = 0
    /\ serveRet = "none"

\* The calling goroutine is not blocked by anything but an empty channel or a
\* Stop that does not return.
ServeRunnable ==
    \/ pc \in {"wait_enter", "log", "switch", "wait_ret"}
    \/ pc = "recv" /\ ch # <<>>
    \/ pc = "in_stop" /\ stopOutcome \in {"ok", "err"}

(***************************************************************************)
(* C13.  Start and the wait loop race.  Once the Start goroutine is        *)
(* launched, each side can take its next step whatever the progress of     *)
(* the other: the calling goroutine subscribes, receives, invokes Stop     *)
(* and returns while Start has not begun or has not returned, and the      *)
(* Start goroutine begins and returns whatever the position of the         *)
(* calling goroutine, also after Stop and after Serve has returned.  So    *)
(* at the invocation of Stop the Start goroutine may be in any of its      *)
(* positions.                                                              *)
(***************************************************************************)
C13_StartStopRace ==
    /\ (alive /\ gpc # "none" /\ ServeRunnable) => ENABLED ServeStep
    /\ (alive /\ gpc = "launched") => ENABLED StartCall
    /\ (alive /\ gpc = "in_start" /\ startOutcome \in {"ok", "err"}) =>
          ENABLED StartReturn
    /\ StopCalls > 0 => gpc \in {"launched", "in_start", "returned"}
    /\ StartCalls = 0 <=> gpc \in {"none", "launched"}

\* Stop was invoked and has returned, and Serve has returned, before the Start
\* goroutine has begun executing Start.
C13_Witness ==
    /\ pc = "done"
    /\ stopOutcome = "ok"
    /\ gpc = "launched"
    /\ calls = <<"Init", "Stop">>

\* Stop is invoked while Start has been invoked and has not returned.
C13_WitnessDuringStart ==
    /\ pc = "in_stop"
    /\ gpc = "in_start"
    /\ calls = <<"Init", "Start", "Stop">>

Delivery == subscribed /\ Sent' = Sent + 1

(***************************************************************************)
(* C15.  The channel between the signal package (producer) and the wait    *)
(* loop (sole consumer) holds two signals.  A signal delivered while       *)
(* fewer than two are queued is appended behind them and none is dropped,  *)
(* so a burst of two delivered before the loop drains any is kept whole,   *)
(* in delivery order.  A signal is dropped only when two are queued.       *)
(* Delivery never blocks: it is possible whatever the channel holds.  The  *)
(* channel is a queue: what was enqueued is what was dequeued followed by  *)
(* what is queued.                                                         *)
(***************************************************************************)
C15_QueueOfTwo ==
    /\ [](Len(ch) <= 2)
    /\ [](subscribed => enq = deq \o ch)
    /\ [][(Delivery /\ Len(ch) < 2) =>
            /\ Len(ch') = Len(ch) + 1
            /\ SubSeq(ch', 1, Len(ch)) = ch
            /\ enq' = Append(enq, ch'[Len(ch')])
            /\ dropped' = dropped]_vars
    /\ [][dropped' # dropped =>
            /\ Len(ch) = 2
            /\ ch' = ch
            /\ dropped' = dropped + 1]_vars
    /\ []((subscribed /\ deq = <<>> /\ Sent - early <= 2) =>
            /\ dropped = 0
            /\ ch = enq
            /\ Len(ch) = Sent - early)
    /\ []((alive /\ subscribed /\ Sent < MaxSignals) => ENABLED Deliver)

C15_Witness ==
    /\ pc = "recv"
    /\ deq = <<>>
    /\ ch = <<"INT", "TERM">>
    /\ enq = <<"INT", "TERM">>
    /\ dropped = 0
    /\ early = 0

\* The "signal caught" entries of the log, in order.
CaughtEntries == SelectSeq(logs, LAMBDA e : e.msg = "signal caught")

\* The entry expected for each signal of a sequence.
CaughtFor(seq) ==
    [i \in 1..Len(seq) |->
        [level |-> "info", msg |-> "signal caught", field |-> seq[i]]]

(***************************************************************************)
(* C16.  Every signal dequeued by the wait loop, terminating or not, gets  *)
(* one "signal caught" entry carrying its identity, in dequeue order.  The *)
(* entry is written right after the receive and before the switch: from    *)
(* the switch on (so at every invocation of Stop) the entries are exactly  *)
(* those of the signals dequeued, and between the receive and the log      *)
(* statement only the entry of the signal just received is outstanding.    *)
(***************************************************************************)
C16_EverySignalLogged ==
    /\ pc # "log" => CaughtEntries = CaughtFor(deq)
    /\ pc = "log" =>
          /\ deq # <<>>
          /\ sig = deq[Len(deq)]
          /\ CaughtEntries = CaughtFor(SubSeq(deq, 1, Len(deq) - 1))
    /\ pc \in {"switch", "in_stop", "wait_ret"} =>
          /\ logs # <<>>
          /\ logs[Len(logs)].field = sig
    /\ StopCalls > 0 => Len(CaughtEntries) = Len(deq)

C16_Witness ==
    /\ pc = "in_stop"
    /\ deq = <<"HUP", "USR2", "INT">>
    /\ Len(logs) = 3
    /\ logs[1].field = "HUP"
    /\ logs[2].field = "USR2"
    /\ logs[3].field = "INT"

EarlyDelivery == early' # early

(***************************************************************************)
(* C18.  The channel is registered only inside Wait: after Init has        *)
(* returned with success and after the Start goroutine has been launched.  *)
(* A signal delivered before that is not enqueued, not logged and causes   *)
(* no Lifecycle call; signals are enqueued only once the channel is        *)
(* registered, and Stop is invoked only for a terminating signal that was  *)
(* enqueued after the registration.                                        *)
(***************************************************************************)
C18_SubscriptionOnlyInWait ==
    /\ [](subscribed <=> pc \in {"recv", "log", "switch", "in_stop",
                                 "wait_ret"}
                         \/ (pc = "done" /\ initRet = "nil"))
    /\ [](subscribed => initRet = "nil" /\ gpc # "none")
    /\ [](~subscribed =>
            /\ ch = <<>>
            /\ enq = <<>>
            /\ deq = <<>>
            /\ logs = <<>>
            /\ StopCalls = 0
            /\ dropped = 0)
    /\ [][EarlyDelivery =>
            /\ ~subscribed
            /\ early' = early + 1
            /\ UNCHANGED <<pc, gpc, ch, enq, deq, sig, logs, calls,
                           waitRet, serveRet, subscribed>>]_vars
    /\ [][enq' # enq => subscribed /\ early' = early]_vars
    /\ [](StopCalls > 0 =>
            /\ FirstTerminating(enq) \in TerminatingSignals
            /\ FirstTerminating(enq) = sig)

C18_Witness ==
    /\ early = 2
    /\ alive
    /\ pc = "done"
    /\ enq = <<"TERM">>
    /\ StopCalls = 1
    /\ logs = <<SignalCaught("TERM")>>

====
